---- MODULE Spec2Model ----
(***************************************************************************)
(* Model of the chat UI state manager of the resume assistant             *)
(* (src/frontend/app/page.tsx, HomePage): question / answer / status /    *)
(* loading / history / copied state, the localStorage effects, the ask    *)
(* request lifecycle, the copy-to-clipboard handler and its timers.       *)
(*                                                                         *)
(* Strings are sequences of tokens: the token " " is one whitespace       *)
(* character, every other token is a block of text that neither starts    *)
(* nor ends with whitespace.  String.prototype.trim is modelled on that   *)
(* representation.  Non-ASCII characters of the source literals are       *)
(* written in ASCII ("Thinking..." for "Thinking" + U+2026).              *)
(*                                                                         *)
(* A localStorage value is a JSON text, modelled as a sequence of typed   *)
(* tokens; JSON.stringify and JSON.parse are modelled as the writer and   *)
(* the reader of that token sequence.                                     *)
(***************************************************************************)
EXTENDS Integers, Sequences, FiniteSets, TLC

VARIABLES
    question,     \* useState("")            page.tsx:63
    answer,       \* useState(DEFAULT_ANSWER) page.tsx:64
    status,       \* useState("")            page.tsx:65
    loading,      \* useState(false)         page.tsx:66
    history,      \* useState([])            page.tsx:67
    copied,       \* useState(false)         page.tsx:68
    storage,      \* window.localStorage[HISTORY_STORAGE_KEY]
    request,      \* the pending fetch of handleAsk: its captured `trimmed` (question)
                  \* and the question field it was trimmed from (typed)
    clipboard,    \* the pending navigator.clipboard.writeText promise
    statusTimers, \* pending setTimeout(() => setStatus(""), 1500) callbacks
    phase,        \* "init" (mounted, effects not yet run) | "ready" | "crashed"
    uncaught,     \* where an exception left the component uncaught ("none" if nowhere)
    requests,     \* number of fetch calls issued so far (all sessions)
    copies,       \* number of clipboard writes started so far
    sessions,     \* number of page loads so far
    prevHistory,  \* in-memory history when the previous session ended
    op,           \* the last operation and its input: [name, arg]
    \* src/frontend/lib/resume.ts: one call of a parsing function
    fn,             \* the function called ("none": no call in progress)
    lines,          \* its argument: string[] (splitTitlePeriod: its one line)
    pos,            \* loop position (`i` of parseEducation): lines[1..pos]
                    \* have been consumed
    items,          \* the result array being built
    currentOrg,     \* parseExperience   resume.ts:90
    currentPeriod,  \* parseExperience   resume.ts:91
    currentRole,    \* parseExperience   resume.ts:92
    bullets,        \* parseExperience   resume.ts:93
    currentContext, \* parseProjects     resume.ts:142
    currentProject, \* parseProjects     resume.ts:143 (open = FALSE: null)
    returned        \* the function has returned `items`

vars == <<question, answer, status, loading, history, copied, storage, request,
          clipboard, statusTimers, phase, uncaught, requests, copies, sessions,
          prevHistory, op>>

resumeVars == <<fn, lines, pos, items, currentOrg, currentPeriod, currentRole,
                bullets, currentContext, currentProject, returned>>

(***************************************************************************)
(* Bounds of the model.                                                    *)
(***************************************************************************)
MaxAsks == 2
MaxCopies == 1
MaxSessions == 2

(***************************************************************************)
(* Program constants.                                                      *)
(***************************************************************************)
HISTORY_LIMIT == 15

DEFAULT_ANSWER == <<"The assistant's answer will appear here.">>

\* One of the four suggestion chips; they differ only in their text.
SUGGESTED_QUESTIONS == { <<"List the most recent work achievements.">> }

(***************************************************************************)
(* Strings.                                                                *)
(***************************************************************************)
\* The whitespace characters of the model: space, tab (U+0009) and
\* non-breaking space (U+00A0).  trim() and \s treat all three alike.
Tab == "TAB"

Nbsp == "NBSP"

IsSpace(c) == c \in {" ", Tab, Nbsp}

RECURSIVE TrimStart(_)
TrimStart(s) ==
    IF s # <<>> /\ IsSpace(Head(s)) THEN TrimStart(Tail(s)) ELSE s

RECURSIVE TrimEnd(_)
TrimEnd(s) ==
    IF s # <<>> /\ IsSpace(s[Len(s)]) THEN TrimEnd(SubSeq(s, 1, Len(s) - 1)) ELSE s

\* A plausible slip: the question is used as typed.
TrimNone(s) == s

\* String.prototype.trim
Trim(s) == TrimEnd(TrimStart(s))

(***************************************************************************)
(* Array helpers.                                                          *)
(***************************************************************************)
\* Array.prototype.slice(-n)
SliceLast(arr, n) ==
    IF Len(arr) <= n THEN arr ELSE SubSeq(arr, Len(arr) - n + 1, Len(arr))

\* [...arr].reverse()
Reverse(arr) == [i \in 1..Len(arr) |-> arr[Len(arr) + 1 - i]]

RECURSIVE Flatten(_)
Flatten(seqs) ==
    IF seqs = <<>> THEN <<>> ELSE Head(seqs) \o Flatten(Tail(seqs))

(***************************************************************************)
(* JSON texts as token sequences.                                          *)
(***************************************************************************)
Punct(c) == [t |-> "punct", v |-> c]
Field(k, v) == [t |-> "field", k |-> k, v |-> v]
Atom(v) == [t |-> "atom", v |-> v]

IsPunct(tok, c) == tok.t = "punct" /\ tok.v = c

\* Objects are written with their keys in insertion order; every object of
\* the model has its keys in this relative order.
KeyOrder == <<"id", "question", "answer", "askedAt", "note">>

StringifyObject(obj) ==
    LET keys == SelectSeq(KeyOrder, LAMBDA k : k \in DOMAIN obj)
    IN  <<Punct("{")>> \o [i \in 1..Len(keys) |-> Field(keys[i], obj[keys[i]])]
                       \o <<Punct("}")>>

\* JSON.stringify of an array of objects
JSONstringify(arr) ==
    <<Punct("[")>> \o Flatten([i \in 1..Len(arr) |-> StringifyObject(arr[i])])
                   \o <<Punct("]")>>

\* The object made of a run of field tokens (a later duplicate key wins).
ObjectOf(fields) ==
    [k \in {fields[j].k : j \in 1..Len(fields)} |->
        fields[CHOOSE j \in 1..Len(fields) :
                  /\ fields[j].k = k
                  /\ \A j2 \in 1..Len(fields) : fields[j2].k = k => j2 <= j].v]

\* Index of the "}" closing the object opened just before position i, or 0.
RECURSIVE ObjectEnd(_, _)
ObjectEnd(text, i) ==
    IF i > Len(text) THEN 0
    ELSE IF IsPunct(text[i], "}") THEN i
    ELSE IF text[i].t = "field" THEN ObjectEnd(text, i + 1)
    ELSE 0

\* Reads the elements of an array from position i on; the text must end
\* with the closing "]".
RECURSIVE ParseItems(_, _, _)
ParseItems(text, i, acc) ==
    IF i > Len(text) THEN [ok |-> FALSE, isArray |-> FALSE, items |-> <<>>]
    ELSE IF IsPunct(text[i], "]")
         THEN [ok |-> i = Len(text), isArray |-> i = Len(text),
               items |-> IF i = Len(text) THEN acc ELSE <<>>]
    ELSE IF IsPunct(text[i], "{") /\ ObjectEnd(text, i + 1) > 0
         THEN LET e == ObjectEnd(text, i + 1)
              IN  ParseItems(text, e + 1,
                             Append(acc, ObjectOf(SubSeq(text, i + 1, e - 1))))
    ELSE [ok |-> FALSE, isArray |-> FALSE, items |-> <<>>]

\* JSON.parse: ok = FALSE when it throws SyntaxError; isArray is
\* Array.isArray of the parsed value; items are the array's elements.
JSONparse(text) ==
    IF text = <<>> THEN [ok |-> FALSE, isArray |-> FALSE, items |-> <<>>]
    ELSE IF IsPunct(text[1], "[") THEN ParseItems(text, 2, <<>>)
    ELSE IF IsPunct(text[1], "{")
         THEN [ok |-> ObjectEnd(text, 2) = Len(text), isArray |-> FALSE,
               items |-> <<>>]
    ELSE IF text[1].t = "atom"
         THEN [ok |-> Len(text) = 1, isArray |-> FALSE, items |-> <<>>]
    ELSE [ok |-> FALSE, isArray |-> FALSE, items |-> <<>>]

(***************************************************************************)
(* History entries.                                                        *)
(***************************************************************************)
\* crypto.randomUUID() / Date.now(): a value no earlier entry carries.  Ids
\* up to HISTORY_LIMIT + 1 belong to entries stored by earlier page loads.
FreshStamp == HISTORY_LIMIT + 1 + requests

createHistoryEntry(questionText, answerText) ==
    [id |-> FreshStamp, question |-> questionText, answer |-> answerText,
     askedAt |-> FreshStamp]

\* A plausible slip: the newest entries are dropped instead of the oldest.
pushToHistoryKeepOldest(prev, questionText, answerText) ==
    SubSeq(Append(prev, createHistoryEntry(questionText, answerText)), 1,
           IF Len(prev) + 1 <= HISTORY_LIMIT THEN Len(prev) + 1 ELSE HISTORY_LIMIT)

\* A plausible slip: the new entry is put first (unshift for push).
pushToHistoryNewestFirst(prev, questionText, answerText) ==
    SliceLast(<<createHistoryEntry(questionText, answerText)>> \o prev,
              HISTORY_LIMIT)

\* setHistory updater of pushToHistory
pushToHistory(prev, questionText, answerText) ==
    SliceLast(Append(prev, createHistoryEntry(questionText, answerText)),
              HISTORY_LIMIT)

\* The text the persist effect hands to setItem.
PersistedText(h) == JSONstringify(SliceLast(h, HISTORY_LIMIT))

\* The history list as rendered: most recent first.
DisplayedHistory(h) == Reverse(h)

\* Rendering an entry formats new Date(entry.askedAt).toISOString(), which
\* throws RangeError for an entry without a valid askedAt.
RenderThrows(h) == \E i \in 1..Len(h) : "askedAt" \notin DOMAIN h[i]

hasHistory == Len(history) > 0

canCopy == Trim(answer) # <<>> /\ Trim(answer) # DEFAULT_ANSWER /\ ~loading

(***************************************************************************)
(* The environment: what localStorage holds when the page is first        *)
(* opened, how a storage access can fail, what the backend can return.    *)
(***************************************************************************)
StoredEntry(i) ==
    [id |-> i, question |-> <<"List the most recent work achievements.">>, answer |-> <<"NUS">>,
     askedAt |-> i]

StoredEntries(n) == [i \in 1..n |-> StoredEntry(i)]

Item(text) == [present |-> TRUE, text |-> text]

NoItem == [present |-> FALSE, text |-> <<>>]

InitialStorage ==
    { NoItem,                                          \* key absent
      Item(<<Punct("["), Punct("{")>>),                \* truncated: not JSON
      Item(<<Atom("null")>>),                          \* JSON, not an array
      Item(JSONstringify(StoredEntries(HISTORY_LIMIT - 1))),
      Item(JSONstringify(StoredEntries(HISTORY_LIMIT))),
      Item(JSONstringify(StoredEntries(HISTORY_LIMIT + 1))),
      \* arrays whose elements are not interaction records
      Item(JSONstringify(<<[id |-> 1, question |-> <<"List the most recent work achievements.">>,
                            askedAt |-> 1]>>)),
      Item(JSONstringify(<<[note |-> <<"x">>]>>)) }

\* "denied": every access to window.localStorage throws (SecurityError);
\* "full": setItem throws (QuotaExceededError).
StorageFaults == {"none", "denied", "full"}

ReadThrows(fault) == fault = "denied"

WriteThrows(fault) == fault \in {"denied", "full"}

Outcomes ==
    { [kind |-> "answer", body |-> <<"NUS", " ", "Computer Engineering">>],
      [kind |-> "noAnswer", body |-> <<>>],     \* 2xx, JSON without answer
      [kind |-> "nullBody", body |-> <<>>],     \* 2xx, JSON null
      [kind |-> "badJson", body |-> <<>>],      \* 2xx, body is not JSON
      [kind |-> "http", body |-> <<"Internal Server Error">>],
      [kind |-> "http", body |-> <<>>],         \* non-2xx, empty body
      [kind |-> "network", body |-> <<>>] }     \* fetch rejects

\* The try block of handleAsk after fetch was called: it ends with the
\* resolved answer, or throws.  Every value thrown here is an Error.
TryBlock(outcome) ==
    LET Returns(text) == [threw |-> FALSE, value |-> text,
                          error |-> [isError |-> TRUE, message |-> <<>>]]
        Throws(text) == [threw |-> TRUE, value |-> <<>>,
                         error |-> [isError |-> TRUE, message |-> text]]
    IN  CASE outcome.kind = "network" -> Throws(<<"Failed to fetch">>)
          [] outcome.kind = "http" ->
                Throws(<<"Request failed (500):", " ">>
                       \o (IF outcome.body # <<>> THEN outcome.body
                                                  ELSE <<"Unknown error">>))
          [] outcome.kind = "badJson" ->
                Throws(<<"Unexpected token < in JSON at position 0">>)
          [] outcome.kind = "nullBody" ->
                Throws(<<"Cannot read properties of null (reading 'answer')">>)
          [] outcome.kind = "noAnswer" -> Returns(<<"No answer returned.">>)
          [] outcome.kind = "answer" -> Returns(outcome.body)

\* error instanceof Error ? error.message : "Unexpected error"
ErrorMessage(error) ==
    IF error.isError THEN error.message ELSE <<"Unexpected error">>

TypedQuestions ==
    { <<>>, <<" ">>, <<" ", "List the most recent work achievements.", " ">> }

NoRequest == [active |-> FALSE, question |-> <<>>, typed |-> <<>>]

NoArg == [kind |-> "none", body |-> <<>>]

Op(name, arg) == [name |-> name, arg |-> arg]

(***************************************************************************)
(* Initial state: the component is mounted, no effect has run yet.        *)
(***************************************************************************)
\* null of currentProject
NoProject ==
    [open |-> FALSE, title |-> <<>>, period |-> <<>>,
     context |-> [defined |-> FALSE, text |-> <<>>], bullets |-> <<>>]

\* The locals of a parsing function as declared (resume.ts:89-93, 141-143).
ResumeLocals ==
    /\ pos = 0
    /\ items = <<>>
    /\ currentOrg = <<>>
    /\ currentPeriod = <<>>
    /\ currentRole = <<>>
    /\ bullets = <<>>
    /\ currentContext = <<>>
    /\ currentProject = NoProject

\* The resume was parsed when the module was loaded; no call is in progress.
ResumeIdle ==
    /\ fn = "none"
    /\ lines = <<>>
    /\ returned = TRUE
    /\ ResumeLocals

Init ==
    /\ ResumeIdle
    /\ storage \in InitialStorage
    /\ question = <<>>
    /\ answer = DEFAULT_ANSWER
    /\ status = <<>>
    /\ loading = FALSE
    /\ history = <<>>
    /\ copied = FALSE
    /\ request = NoRequest
    /\ clipboard = FALSE
    /\ statusTimers = 0
    /\ phase = "init"
    /\ uncaught = "none"
    /\ requests = 0
    /\ copies = 0
    /\ sessions = 1
    /\ prevHistory = <<>>
    /\ op = Op("mount", NoArg)

(***************************************************************************)
(* A history change: the re-render with the new history h, then the       *)
(* persist effect.  Rendering may throw and setItem may throw, and        *)
(* nothing catches either.  An exception while rendering leaves the       *)
(* update uncommitted; the persist effect runs after the commit.          *)
(***************************************************************************)
\* A plausible slip: the whole history is written, not its last entries.
CommitWritesAll(h, fault) ==
    IF RenderThrows(h)
    THEN phase' = "crashed" /\ uncaught' = "render" /\ UNCHANGED <<history, storage>>
    ELSE /\ history' = h
         /\ IF WriteThrows(fault)
            THEN phase' = "crashed" /\ uncaught' = "setItem" /\ UNCHANGED storage
            ELSE phase' = "ready" /\ uncaught' = "none"
                 /\ storage' = Item(JSONstringify(h))

Commit(h, fault) ==
    IF RenderThrows(h)
    THEN phase' = "crashed" /\ uncaught' = "render" /\ UNCHANGED <<history, storage>>
    ELSE /\ history' = h
         /\ IF WriteThrows(fault)
            THEN phase' = "crashed" /\ uncaught' = "setItem" /\ UNCHANGED storage
            ELSE phase' = "ready" /\ uncaught' = "none"
                 /\ storage' = Item(PersistedText(h))

\* A plausible slip: the stored array is taken newest first.
LoadedHistoryNewestFirst(raw, fault) ==
    IF ReadThrows(fault) \/ ~raw.present \/ raw.text = <<>>
    THEN [set |-> FALSE, items |-> <<>>]
    ELSE LET parsed == JSONparse(raw.text)
         IN  IF parsed.ok /\ parsed.isArray
             THEN [set |-> TRUE, items |-> Reverse(parsed.items)]
             ELSE [set |-> FALSE, items |-> <<>>]

\* The load effect: the array handed to setHistory, if any.
LoadedHistory(raw, fault) ==
    IF ReadThrows(fault) THEN [set |-> FALSE, items |-> <<>>]      \* caught
    ELSE IF ~raw.present \/ raw.text = <<>> THEN [set |-> FALSE, items |-> <<>>]
    ELSE LET parsed == JSONparse(raw.text)
         IN  IF parsed.ok /\ parsed.isArray
             THEN [set |-> TRUE, items |-> parsed.items]
             ELSE [set |-> FALSE, items |-> <<>>]

\* Mount: the load effect, the persist effect of the first render (history
\* is still []), then, if the load effect set the history, the re-render
\* and its persist effect.
Startup(fault) ==
    /\ phase = "init"
    /\ LET loaded == LoadedHistory(storage, fault)
       IN  IF WriteThrows(fault)
           THEN /\ phase' = "crashed" /\ uncaught' = "setItem"
                /\ UNCHANGED <<storage, history>>
           ELSE IF ~loaded.set
           THEN Commit(<<>>, fault)
           ELSE IF RenderThrows(loaded.items)
           THEN /\ phase' = "crashed" /\ uncaught' = "render"
                /\ storage' = Item(PersistedText(<<>>))
                /\ UNCHANGED history
           ELSE Commit(loaded.items, fault)
    /\ op' = Op("startup", [kind |-> fault, body |-> <<>>])
    /\ prevHistory' = <<>>
    /\ UNCHANGED <<question, answer, status, loading, copied, request, clipboard,
                   statusTimers, requests, copies, sessions>>
    /\ UNCHANGED resumeVars

(***************************************************************************)
(* The question field.                                                     *)
(***************************************************************************)
\* onChange of the textarea (never disabled)
SetQuestion(text) ==
    /\ phase = "ready"
    /\ text # question
    /\ question' = text
    /\ op' = Op("setQuestion", NoArg)
    /\ UNCHANGED <<answer, status, loading, history, copied, storage, request,
                   clipboard, statusTimers, phase, uncaught, requests, copies,
                   sessions, prevHistory>>
    /\ UNCHANGED resumeVars

\* A suggestion chip (disabled while loading)
handleSuggestionClick(suggestion) ==
    /\ phase = "ready"
    /\ ~loading
    /\ question' = suggestion
    /\ op' = Op("suggestion", NoArg)
    /\ UNCHANGED <<answer, status, loading, history, copied, storage, request,
                   clipboard, statusTimers, phase, uncaught, requests, copies,
                   sessions, prevHistory>>
    /\ UNCHANGED resumeVars

\* A plausible slip: the entry's question is added to the text of the field.
ReusedQuestionAdded(entry) == question \o entry.question

\* setQuestion(entry.question)
ReusedQuestion(entry) == entry.question

\* "Reuse question" of an entry of the rendered list (disabled while
\* loading); window.scrollTo touches no state of the component.
handleReuseQuestion(entry) ==
    /\ phase = "ready"
    /\ ~loading
    /\ question' = ReusedQuestion(entry)
    /\ op' = Op("reuse", [kind |-> "entry", body |-> entry.question])
    /\ UNCHANGED <<answer, status, loading, history, copied, storage, request,
                   clipboard, statusTimers, phase, uncaught, requests, copies,
                   sessions, prevHistory>>
    /\ UNCHANGED resumeVars

(***************************************************************************)
(* Ask.                                                                    *)
(***************************************************************************)
\* A plausible slip: the ask action is never disabled.
AskAlwaysEnabled == TRUE

\* disabled={loading} of the Ask button; if (!loading) of the key handler
AskEnabled == ~loading

\* handleAsk up to its first await.  It is reached from the Ask button
\* (disabled while loading) and from Ctrl/Cmd+Enter (ignored while loading).
handleAsk ==
    /\ phase = "ready"
    /\ AskEnabled
    /\ LET trimmed == Trim(question)
       IN  IF trimmed = <<>>
           THEN /\ answer' = <<"Please enter a question first.">>
                /\ op' = Op("handleAsk", NoArg)
                /\ UNCHANGED <<copied, loading, status, request, requests>>
           ELSE /\ requests < MaxAsks
                /\ copied' = FALSE
                /\ loading' = TRUE
                /\ status' = <<"Thinking...">>
                /\ answer' = <<>>
                /\ request' = [active |-> TRUE, question |-> trimmed, typed |-> question]
                /\ requests' = requests + 1
                /\ op' = Op("handleAsk", NoArg)
    /\ UNCHANGED <<question, history, storage, clipboard, statusTimers, phase,
                   uncaught, copies, sessions, prevHistory>>
    /\ UNCHANGED resumeVars

\* A plausible slip: the success path records the question as typed.
OnSuccessTyped(trimmed, resolvedAnswer) ==
    [answer |-> resolvedAnswer,
     history |-> pushToHistory(history, request.typed, resolvedAnswer)]

\* A plausible slip: the entry records the question field as it is when the
\* answer arrives.
OnSuccessCurrentField(trimmed, resolvedAnswer) ==
    [answer |-> resolvedAnswer,
     history |-> pushToHistory(history, Trim(question), resolvedAnswer)]

\* The end of the try block: setAnswer(resolvedAnswer); pushToHistory(...)
OnSuccess(trimmed, resolvedAnswer) ==
    [answer |-> resolvedAnswer,
     history |-> pushToHistory(history, trimmed, resolvedAnswer)]

\* A plausible slip: the catch block shows the message and records nothing.
OnErrorNoHistory(trimmed, message) ==
    [answer |-> message, history |-> history]

\* The catch block: setAnswer(message); pushToHistory(trimmed, message)
OnError(trimmed, message) ==
    [answer |-> message, history |-> pushToHistory(history, trimmed, message)]

\* A plausible slip: the status is not reset.
FinallyKeepsStatus == loading' = FALSE /\ UNCHANGED status

\* The finally block
Finally == loading' = FALSE /\ status' = <<>>

\* The rest of handleAsk, once the backend call has completed: the end of
\* the try block or the catch block, then the finally block; the re-render
\* and the persist effect follow the history change.
AskSettled(outcome, fault) ==
    /\ phase = "ready"
    /\ request.active
    /\ LET tried == TryBlock(outcome)
           after == IF tried.threw
                    THEN OnError(request.question, ErrorMessage(tried.error))
                    ELSE OnSuccess(request.question, tried.value)
       IN  /\ answer' = after.answer
           /\ Commit(after.history, fault)
    /\ Finally
    /\ request' = NoRequest
    /\ op' = Op("askSettled", outcome)
    /\ UNCHANGED <<question, copied, clipboard, statusTimers, requests, copies,
                   sessions, prevHistory>>
    /\ UNCHANGED resumeVars

(***************************************************************************)
(* History.                                                                *)
(***************************************************************************)
\* A plausible slip: clearing also resets the answer panel.
handleClearHistoryAndAnswer(fault) ==
    /\ phase = "ready"
    /\ hasHistory
    /\ Commit(<<>>, fault)
    /\ answer' = DEFAULT_ANSWER
    /\ op' = Op("clear", [kind |-> fault, body |-> <<>>])
    /\ UNCHANGED <<question, status, loading, copied, request, clipboard,
                   statusTimers, requests, copies, sessions, prevHistory>>
    /\ UNCHANGED resumeVars

\* The Clear button (disabled while the history is empty)
handleClearHistory(fault) ==
    /\ phase = "ready"
    /\ hasHistory
    /\ Commit(<<>>, fault)
    /\ op' = Op("clear", [kind |-> fault, body |-> <<>>])
    /\ UNCHANGED <<question, answer, status, loading, copied, request, clipboard,
                   statusTimers, requests, copies, sessions, prevHistory>>
    /\ UNCHANGED resumeVars

(***************************************************************************)
(* Copy to clipboard.                                                      *)
(***************************************************************************)
\* A plausible slip: only the empty answer is refused.
NothingToCopyEmptyOnly(trimmedAnswer) == trimmedAnswer = <<>>

\* !trimmedAnswer || trimmedAnswer === DEFAULT_ANSWER
NothingToCopy(trimmedAnswer) ==
    trimmedAnswer = <<>> \/ trimmedAnswer = DEFAULT_ANSWER

\* handleCopyAnswer up to its await.  The handler makes its own test of the
\* answer, so it stands here without the Copy button's disabled={!canCopy}:
\* where canCopy is false the handler returns at once.
\* available: navigator.clipboard exists.
handleCopyAnswer(available) ==
    /\ phase = "ready"
    /\ LET trimmedAnswer == Trim(answer)
       IN  IF NothingToCopy(trimmedAnswer)
           THEN UNCHANGED <<status, clipboard, copies>>
           ELSE IF ~available
           THEN /\ status' = <<"Clipboard unavailable">>
                /\ UNCHANGED <<clipboard, copies>>
           ELSE /\ copies < MaxCopies
                /\ ~clipboard          \* one write pending at a time
                /\ clipboard' = TRUE
                /\ copies' = copies + 1
                /\ UNCHANGED status
    /\ op' = Op("copy", NoArg)
    /\ UNCHANGED <<question, answer, loading, history, copied, storage, request,
                   statusTimers, phase, uncaught, requests, sessions, prevHistory>>
    /\ UNCHANGED resumeVars

\* The rest of handleCopyAnswer, once writeText has settled.
CopySettled(written) ==
    /\ phase = "ready"
    /\ clipboard
    /\ clipboard' = FALSE
    /\ IF written
       THEN /\ copied' = TRUE
            /\ status' = <<"Copied!">>
            /\ statusTimers' = statusTimers + 1
       ELSE /\ status' = <<"Clipboard unavailable">>
            /\ UNCHANGED <<copied, statusTimers>>
    /\ op' = Op("copySettled", NoArg)
    /\ UNCHANGED <<question, answer, loading, history, storage, request, phase,
                   uncaught, requests, copies, sessions, prevHistory>>
    /\ UNCHANGED resumeVars

\* setTimeout(() => setStatus(""), 1500)
StatusTimerFires ==
    /\ phase = "ready"
    /\ statusTimers > 0
    /\ statusTimers' = statusTimers - 1
    /\ status' = <<>>
    /\ op' = Op("statusTimer", NoArg)
    /\ UNCHANGED <<question, answer, loading, history, copied, storage, request,
                   clipboard, phase, uncaught, requests, copies, sessions,
                   prevHistory>>
    /\ UNCHANGED resumeVars

\* The effect on `copied`: setTimeout(() => setCopied(false), 2000), cleared
\* when `copied` changes first.
CopiedTimerFires ==
    /\ phase = "ready"
    /\ copied
    /\ copied' = FALSE
    /\ op' = Op("copiedTimer", NoArg)
    /\ UNCHANGED <<question, answer, status, loading, history, storage, request,
                   clipboard, statusTimers, phase, uncaught, requests, copies,
                   sessions, prevHistory>>
    /\ UNCHANGED resumeVars

(***************************************************************************)
(* The page is closed and opened again: the component state starts over,  *)
(* pending promises and timers are gone, localStorage stays.              *)
(***************************************************************************)
NewSession ==
    /\ phase # "init"
    /\ sessions < MaxSessions
    /\ sessions' = sessions + 1
    /\ prevHistory' = history
    /\ question' = <<>>
    /\ answer' = DEFAULT_ANSWER
    /\ status' = <<>>
    /\ loading' = FALSE
    /\ history' = <<>>
    /\ copied' = FALSE
    /\ request' = NoRequest
    /\ clipboard' = FALSE
    /\ statusTimers' = 0
    /\ phase' = "init"
    /\ uncaught' = "none"
    /\ op' = Op("mount", NoArg)
    /\ UNCHANGED <<storage, requests, copies>>
    /\ UNCHANGED resumeVars

\* The operations on the question, the request and the history, and page
\* reloads: everything but the clipboard.
Next ==
    \/ \E fault \in StorageFaults : Startup(fault)
    \/ \E text \in TypedQuestions : SetQuestion(text)
    \/ \E suggestion \in SUGGESTED_QUESTIONS : handleSuggestionClick(suggestion)
    \/ \E i \in 1..Len(history) : handleReuseQuestion(DisplayedHistory(history)[i])
    \/ handleAsk
    \/ \E outcome \in Outcomes, fault \in StorageFaults : AskSettled(outcome, fault)
    \/ \E fault \in StorageFaults : handleClearHistory(fault)
    \/ NewSession

Spec == Init /\ [][Next]_vars

\* One page load on a browser whose storage key is absent, with the
\* clipboard in use.
InitClipboard == Init /\ storage = NoItem

NextClipboard ==
    \/ \E fault \in StorageFaults : Startup(fault)
    \/ \E text \in TypedQuestions : SetQuestion(text)
    \/ \E suggestion \in SUGGESTED_QUESTIONS : handleSuggestionClick(suggestion)
    \/ \E i \in 1..Len(history) : handleReuseQuestion(DisplayedHistory(history)[i])
    \/ handleAsk
    \/ \E outcome \in Outcomes, fault \in StorageFaults : AskSettled(outcome, fault)
    \/ \E fault \in StorageFaults : handleClearHistory(fault)
    \/ \E available \in BOOLEAN : handleCopyAnswer(available)
    \/ \E written \in BOOLEAN : CopySettled(written)
    \/ StatusTimerFires
    \/ CopiedTimerFires

SpecClipboard == InitClipboard /\ [][NextClipboard]_vars

\* The same with the browser's scheduling: a pending timer fires and a
\* pending clipboard write settles.  Nothing obliges the user to act or the
\* backend to answer.
SpecClipboardLive ==
    /\ SpecClipboard
    /\ WF_vars(StatusTimerFires)
    /\ WF_vars(CopiedTimerFires)
    /\ WF_vars(\E written \in BOOLEAN : CopySettled(written))

(***************************************************************************)
(* src/frontend/lib/resume.ts.  A line is a sequence of characters: the   *)
(* whitespace characters above and the letters "a" and "b".               *)
(***************************************************************************)
MaxLineLen == 5
MaxLines == 4

Chars == {"a", "b", " ", Tab, Nbsp}

\* value.replace(/\u00a0/g, " ")
ReplaceNbsp(s) == [k \in 1..Len(s) |-> IF s[k] = Nbsp THEN " " ELSE s[k]]

\* Length of the run of characters of `set` that starts at position k of s.
RECURSIVE RunLength(_, _, _)
RunLength(s, k, set) ==
    IF k <= Len(s) /\ s[k] \in set THEN 1 + RunLength(s, k + 1, set) ELSE 0

\* The lengths (?:\s{2,}|\t+) tries at offset n of s, in the order the
\* regular expression engine tries them: each alternative longest first.
GapLengths(s, n) ==
    LET w == RunLength(s, n + 1, {" ", Tab, Nbsp})
        t == RunLength(s, n + 1, {Tab})
    IN  (IF w >= 2 THEN [k \in 1..(w - 1) |-> w + 1 - k] ELSE <<>>)
        \o [k \in 1..t |-> t + 1 - k]

\* s.match(/^(.*?)(?:\s{2,}|\t+)(.+)$/): the shortest first group, then the
\* first gap length that leaves at least one character for the last group.
RegexMatch(s) ==
    LET Fits(n) == SelectSeq(GapLengths(s, n), LAMBDA g : n + g < Len(s))
        starts == {n \in 0..Len(s) : Fits(n) # <<>>}
    IN  IF starts = {} THEN [matched |-> FALSE, g1 |-> <<>>, g2 |-> <<>>]
        ELSE LET n == CHOOSE m \in starts : \A m2 \in starts : m <= m2
                 g == Head(Fits(n))
             IN  [matched |-> TRUE, g1 |-> SubSeq(s, 1, n),
                  g2 |-> SubSeq(s, n + g + 1, Len(s))]

\* A plausible slip: the groups are read the other way round.
splitTitlePeriodSwapped(line) ==
    LET match == RegexMatch(ReplaceNbsp(line))
    IN  IF match.matched
        THEN [title |-> Trim(match.g2), period |-> Trim(match.g1)]
        ELSE [title |-> Trim(line), period |-> <<>>]

splitTitlePeriod(line) ==
    LET cleanLine == ReplaceNbsp(line)
        match == RegexMatch(cleanLine)
    IN  IF match.matched
        THEN [title |-> Trim(match.g1), period |-> Trim(match.g2)]
        ELSE [title |-> Trim(line), period |-> <<>>]

\* value.replace(/\s+/g, " ")
RECURSIVE CollapseSpaces(_)
CollapseSpaces(s) ==
    IF s = <<>> THEN <<>>
    ELSE IF IsSpace(Head(s))
         THEN <<" ">> \o CollapseSpaces(SubSeq(s, 1 + RunLength(s, 1, {" ", Tab, Nbsp}),
                                               Len(s)))
    ELSE <<Head(s)>> \o CollapseSpaces(Tail(s))

normalizeSpaces(value) == Trim(CollapseSpaces(ReplaceNbsp(value)))

(***************************************************************************)
(* The arguments of the calls.                                             *)
(***************************************************************************)
\* Every line of at most MaxLineLen characters.
AllLines == UNION {[1..n -> Chars] : n \in 0..MaxLineLen}

\* Lines of a resume section: a blank line, two header lines (a title, a
\* gap, a period), three lines without a gap.
SampleLines ==
    { <<" ">>,
      <<"a", " ", " ", "b">>,
      <<"b", Tab, "a">>,
      <<"a">>,
      <<"b", " ", "a">>,
      <<" ", "a", Nbsp, "b">> }

SampleSections == UNION {[1..n -> SampleLines] : n \in 0..MaxLines}

\* Every line of at most MaxLineLen characters out of two letters, the
\* space and the colon.
AllSkillLines == UNION {[1..n -> {"a", "b", " ", ":"}] : n \in 0..MaxLineLen}

SampleSkillLines ==
    { <<"a", ":", " ", "b">>,
      <<" ", "b", " ", ":", "a", ":", "b", " ">>,
      <<"a", " ", "b">>,
      <<":", "a">>,
      <<>> }

\* The skills section: one line of any content, or several sample lines.
SkillSections ==
    {<<l>> : l \in AllSkillLines}
        \cup UNION {[1..n -> SampleSkillLines] : n \in 0..MaxLines}

\* The parts of a contact line, a label, a colon and a value each. The
\* last option of each set is not well formed: a space before the colon,
\* an unknown label, a part left out, an empty value.
EmailParts ==
    { <<"Email", ":", " ", "a", "@", "b.com">>,
      <<"Email", " ", ":", " ", "a", "@", "b.com">> }

PhoneParts ==
    { <<"Contact", " ", "Number", ":", " ", "123">>,
      <<"Contact", " ", "Number", ":", "+65", " ", "123">>,
      <<"Number", ":", " ", "123">> }

LinkedInParts ==
    { <<"LinkedIn", ":", " ", "jiashu-huang">>,
      <<"LinkedIn", ":", " ", "Jiashu", " ", " ", "Huang">>,
      <<"LinkedIn", ":", " ", "https", ":", "//", "www.linkedin.com/in/", "jiashu-huang">>,
      <<"LinkedIn", ":", "http", ":", "//", "linkedin.com/in/", "Jiashu">>,
      <<>> }

GitHubParts ==
    { <<"GitHub", ":", " ", "@", "joshh">>,
      <<"GitHub", ":", "joshh">>,
      <<"GitHub", ":", " ", "https", ":", "//", "github.com/", "joshh">>,
      <<"GitHub", ":", " ">> }

\* What stands between two parts; the last two miss the space before the
\* next label.
PartSeparators == {<<" ", "|", " ">>, <<" ", "|">>, <<"|">>}

\* The parts that are present, joined by the separator.
RECURSIVE JoinParts(_, _)
JoinParts(parts, sep) ==
    IF parts = <<>> THEN <<>>
    ELSE IF Head(parts) = <<>> THEN JoinParts(Tail(parts), sep)
    ELSE LET rest == JoinParts(Tail(parts), sep)
         IN  IF rest = <<>> THEN Head(parts) ELSE Head(parts) \o sep \o rest

\* A line with the space missing before GitHub only.
GlitchLine ==
    <<"Email", ":", " ", "a", "@", "b.com", " ", "|", " ",
      "Contact", " ", "Number", ":", " ", "123", " ", "|", " ",
      "LinkedIn", ":", " ", "jiashu-huang", " ", "|",
      "GitHub", ":", " ", "@", "joshh">>

\* Contact lines: the four parts in the usual order or in the reverse one.
ContactLines ==
    {GlitchLine} \cup
    { JoinParts(IF reversed THEN <<g, l, p, e>> ELSE <<e, p, l, g>>, sep) :
        <<e, p, l, g, sep, reversed>> \in
            EmailParts \X PhoneParts \X LinkedInParts \X GitHubParts
                \X PartSeparators \X BOOLEAN }

InitResume ==
    /\ ResumeLocals
    /\ returned = FALSE
    /\ \/ fn = "splitTitlePeriod" /\ \E line \in AllLines : lines = <<line>>
       \/ /\ fn \in {"parseEducation", "parseExperience", "parseProjects"}
          /\ lines \in SampleSections
       \/ fn = "parseSkills" /\ lines \in SkillSections
       \/ fn = "parseContact" /\ \E line \in ContactLines : lines = <<line>>
    /\ storage = NoItem
    /\ question = <<>>
    /\ answer = DEFAULT_ANSWER
    /\ status = <<>>
    /\ loading = FALSE
    /\ history = <<>>
    /\ copied = FALSE
    /\ request = NoRequest
    /\ clipboard = FALSE
    /\ statusTimers = 0
    /\ phase = "init"
    /\ uncaught = "none"
    /\ requests = 0
    /\ copies = 0
    /\ sessions = 1
    /\ prevHistory = <<>>
    /\ op = Op("mount", NoArg)

\* A call of splitTitlePeriod on its own.
splitTitlePeriodCall ==
    /\ fn = "splitTitlePeriod"
    /\ ~returned
    /\ items' = <<splitTitlePeriod(lines[1])>>
    /\ pos' = 1
    /\ returned' = TRUE
    /\ UNCHANGED <<fn, lines, currentOrg, currentPeriod, currentRole, bullets,
                   currentContext, currentProject>>
    /\ UNCHANGED vars

\* lines[k] ?? ""
LineOr(arr, k) == IF k \in 1..Len(arr) THEN arr[k] ELSE <<>>

\* A plausible slip: the detail is read from the header line.
educationEntryOfHeader(header, detail) ==
    [school |-> splitTitlePeriod(header).title,
     period |-> splitTitlePeriod(header).period,
     detail |-> Trim(header)]

\* The entry pushed by the loop body of parseEducation.
educationEntry(header, detail) ==
    [school |-> splitTitlePeriod(header).title,
     period |-> splitTitlePeriod(header).period,
     detail |-> Trim(detail)]

\* One turn of the loop of parseEducation: for (i = 0; i < length; i += 2)
parseEducationStep ==
    /\ fn = "parseEducation"
    /\ ~returned
    /\ pos < Len(lines)
    /\ items' = Append(items, educationEntry(LineOr(lines, pos + 1),
                                             LineOr(lines, pos + 2)))
    /\ pos' = pos + 2
    /\ UNCHANGED <<fn, lines, currentOrg, currentPeriod, currentRole, bullets,
                   currentContext, currentProject, returned>>
    /\ UNCHANGED vars

parseEducationReturn ==
    /\ fn = "parseEducation"
    /\ ~returned
    /\ pos >= Len(lines)
    /\ returned' = TRUE
    /\ UNCHANGED <<fn, lines, pos, items, currentOrg, currentPeriod, currentRole,
                   bullets, currentContext, currentProject>>
    /\ UNCHANGED vars

\* A plausible slip: role and org change places in the entry.
pushCurrentSwapped ==
    IF currentRole = <<>> \/ currentOrg = <<>> THEN items
    ELSE Append(items, [role |-> currentOrg, org |-> currentRole,
                        period |-> currentPeriod,
                        bullets |-> [k \in 1..Len(bullets) |->
                                        normalizeSpaces(bullets[k])]])

\* A plausible slip: the entry is pushed whatever it lacks.
pushCurrentUnguarded ==
    Append(items, [role |-> currentRole, org |-> currentOrg,
                   period |-> currentPeriod,
                   bullets |-> [k \in 1..Len(bullets) |->
                                   normalizeSpaces(bullets[k])]])

\* pushCurrent of parseExperience: the items after the call.
pushCurrent ==
    IF currentRole = <<>> \/ currentOrg = <<>> THEN items
    ELSE Append(items, [role |-> currentRole, org |-> currentOrg,
                        period |-> currentPeriod,
                        bullets |-> [k \in 1..Len(bullets) |->
                                        normalizeSpaces(bullets[k])]])

\* A plausible slip: the entry is pushed as soon as its role is known.
experienceLinePushesAtRole(trimmed) ==
    LET split == splitTitlePeriod(trimmed)
    IN  IF split.period # <<>>
        THEN [items |-> IF currentRole # <<>> THEN pushCurrent ELSE items,
              org |-> split.title, period |-> split.period, role |-> <<>>,
              bullets |-> <<>>]
        ELSE IF currentRole = <<>>
        THEN [items |-> IF currentOrg = <<>> THEN items
                        ELSE Append(items, [role |-> trimmed, org |-> currentOrg,
                                            period |-> currentPeriod,
                                            bullets |-> <<>>]),
              org |-> currentOrg, period |-> currentPeriod, role |-> trimmed,
              bullets |-> bullets]
        ELSE [items |-> items, org |-> currentOrg, period |-> currentPeriod,
              role |-> currentRole, bullets |-> Append(bullets, trimmed)]

\* The forEach callback of parseExperience on a non-blank line: the items
\* and the closure variables after it.
experienceLine(trimmed) ==
    LET split == splitTitlePeriod(trimmed)
    IN  IF split.period # <<>>
        THEN [items |-> IF currentRole # <<>> THEN pushCurrent ELSE items,
              org |-> split.title, period |-> split.period, role |-> <<>>,
              bullets |-> <<>>]
        ELSE IF currentRole = <<>>
        THEN [items |-> items, org |-> currentOrg, period |-> currentPeriod,
              role |-> trimmed, bullets |-> bullets]
        ELSE [items |-> items, org |-> currentOrg, period |-> currentPeriod,
              role |-> currentRole, bullets |-> Append(bullets, trimmed)]

\* lines.forEach of parseExperience, one line
parseExperienceLine ==
    /\ fn = "parseExperience"
    /\ ~returned
    /\ pos < Len(lines)
    /\ pos' = pos + 1
    /\ LET trimmed == Trim(lines[pos + 1])
       IN  IF trimmed = <<>>
           THEN UNCHANGED <<items, currentOrg, currentPeriod, currentRole, bullets>>
           ELSE LET after == experienceLine(trimmed)
                IN  /\ items' = after.items
                    /\ currentOrg' = after.org
                    /\ currentPeriod' = after.period
                    /\ currentRole' = after.role
                    /\ bullets' = after.bullets
    /\ UNCHANGED <<fn, lines, currentContext, currentProject, returned>>
    /\ UNCHANGED vars

\* The end of parseExperience: the last pending entry, then return items.
parseExperienceReturn ==
    /\ fn = "parseExperience"
    /\ ~returned
    /\ pos = Len(lines)
    /\ items' = IF currentRole # <<>> THEN pushCurrent ELSE items
    /\ returned' = TRUE
    /\ UNCHANGED <<fn, lines, pos, currentOrg, currentPeriod, currentRole,
                   bullets, currentContext, currentProject>>
    /\ UNCHANGED vars

\* A plausible slip: a project without bullets is not pushed.
pushCurrentProjectWithBullets ==
    IF currentProject.open /\ currentProject.bullets # <<>>
    THEN Append(items, [title |-> currentProject.title,
                        period |-> currentProject.period,
                        context |-> currentProject.context,
                        bullets |-> [k \in 1..Len(currentProject.bullets) |->
                                        normalizeSpaces(currentProject.bullets[k])]])
    ELSE items

\* pushCurrent of parseProjects: the items after the call (currentProject
\* becomes null).
pushCurrentProject ==
    IF currentProject.open
    THEN Append(items, [title |-> currentProject.title,
                        period |-> currentProject.period,
                        context |-> currentProject.context,
                        bullets |-> [k \in 1..Len(currentProject.bullets) |->
                                        normalizeSpaces(currentProject.bullets[k])]])
    ELSE items

\* The forEach callback of parseProjects on a non-blank line: the items
\* and the closure variables after it.
projectLine(trimmed) ==
    LET split == splitTitlePeriod(trimmed)
    IN  IF split.period # <<>>
        THEN [items |-> pushCurrentProject,
              context |-> currentContext,
              project |-> [open |-> TRUE, title |-> split.title,
                           period |-> split.period,
                           \* currentContext || undefined
                           context |-> [defined |-> currentContext # <<>>,
                                        text |-> currentContext],
                           bullets |-> <<>>]]
        ELSE IF ~currentProject.open
        THEN [items |-> items, context |-> trimmed, project |-> currentProject]
        ELSE [items |-> items, context |-> currentContext,
              project |-> [currentProject EXCEPT
                              !.bullets = Append(currentProject.bullets, trimmed)]]

\* lines.forEach of parseProjects, one line
parseProjectsLine ==
    /\ fn = "parseProjects"
    /\ ~returned
    /\ pos < Len(lines)
    /\ pos' = pos + 1
    /\ LET trimmed == Trim(lines[pos + 1])
       IN  IF trimmed = <<>>
           THEN UNCHANGED <<items, currentContext, currentProject>>
           ELSE LET after == projectLine(trimmed)
                IN  /\ items' = after.items
                    /\ currentContext' = after.context
                    /\ currentProject' = after.project
    /\ UNCHANGED <<fn, lines, currentOrg, currentPeriod, currentRole, bullets,
                   returned>>
    /\ UNCHANGED vars

\* The end of parseProjects: pushCurrent(), then return items.
parseProjectsReturn ==
    /\ fn = "parseProjects"
    /\ ~returned
    /\ pos = Len(lines)
    /\ items' = pushCurrentProject
    /\ currentProject' = NoProject
    /\ returned' = TRUE
    /\ UNCHANGED <<fn, lines, pos, currentOrg, currentPeriod, currentRole,
                   bullets, currentContext>>
    /\ UNCHANGED vars

\* s.split(sep) for a one-character separator
RECURSIVE Split(_, _)
Split(s, sep) ==
    LET at == {k \in 1..Len(s) : s[k] = sep}
    IN  IF at = {} THEN <<s>>
        ELSE LET k == CHOOSE m \in at : \A m2 \in at : m <= m2
             IN  <<SubSeq(s, 1, k - 1)>> \o Split(SubSeq(s, k + 1, Len(s)), sep)

\* parts.join(sep)
RECURSIVE Join(_, _)
Join(parts, sep) ==
    IF parts = <<>> THEN <<>>
    ELSE IF Len(parts) = 1 THEN parts[1]
    ELSE parts[1] \o <<sep>> \o Join(Tail(parts), sep)

\* A plausible slip: const [label, value] = line.split(":")
skillEntryTwoParts(line) ==
    LET parts == Split(line, ":")
    IN  [label |-> Trim(parts[1]),
         value |-> IF Len(parts) >= 2 THEN Trim(parts[2]) ELSE <<>>]

\* The map callback of parseSkills
skillEntry(line) ==
    LET parts == Split(line, ":")
        label == Head(parts)
        rest == Tail(parts)
    IN  [label |-> Trim(label), value |-> Trim(Join(rest, ":"))]

\* lines.map of parseSkills, one line
parseSkillsStep ==
    /\ fn = "parseSkills"
    /\ ~returned
    /\ pos < Len(lines)
    /\ pos' = pos + 1
    /\ items' = Append(items, skillEntry(lines[pos + 1]))
    /\ UNCHANGED <<fn, lines, currentOrg, currentPeriod, currentRole, bullets,
                   currentContext, currentProject, returned>>
    /\ UNCHANGED vars

parseSkillsReturn ==
    /\ fn = "parseSkills"
    /\ ~returned
    /\ pos = Len(lines)
    /\ returned' = TRUE
    /\ UNCHANGED <<fn, lines, pos, items, currentOrg, currentPeriod, currentRole,
                   bullets, currentContext, currentProject>>
    /\ UNCHANGED vars

\* The characters of a contact line are words, numbers, spaces and the
\* marks ":", "|", "@", "//"; toLowerCase changes the capitalised words.
LowerChar(c) ==
    CASE c = "Email" -> "email"
      [] c = "Contact" -> "contact"
      [] c = "Number" -> "number"
      [] c = "LinkedIn" -> "linkedin"
      [] c = "GitHub" -> "github"
      [] c = "Jiashu" -> "jiashu"
      [] c = "Huang" -> "huang"
      [] OTHER -> c

\* value.toLowerCase()
toLowerCase(s) == [k \in 1..Len(s) |-> LowerChar(s[k])]

\* value.replace(/\s+/g, with)
RECURSIVE ReplaceSpaceRuns(_, _)
ReplaceSpaceRuns(s, with) ==
    IF s = <<>> THEN <<>>
    ELSE IF IsSpace(Head(s))
         THEN <<with>> \o ReplaceSpaceRuns(
                  SubSeq(s, 1 + RunLength(s, 1, {" ", Tab, Nbsp}), Len(s)), with)
    ELSE <<Head(s)>> \o ReplaceSpaceRuns(Tail(s), with)

\* value.startsWith(prefix)
startsWith(s, prefix) ==
    Len(s) >= Len(prefix) /\ SubSeq(s, 1, Len(prefix)) = prefix

Http == <<"http", ":", "//">>

Https == <<"https", ":", "//">>

buildLinkedInUrl(value) ==
    IF value = <<>> THEN <<>>
    ELSE LET trimmed == Trim(value)
         IN  IF startsWith(trimmed, Http) \/ startsWith(trimmed, Https)
             THEN trimmed
             ELSE LET slug == ReplaceSpaceRuns(toLowerCase(trimmed), "-")
                  IN  Https \o <<"www.linkedin.com/in/">> \o slug

\* The handle used as it stands, its @ kept.
buildGithubUrlKeepsAt(value) ==
    IF value = <<>> THEN <<>>
    ELSE LET trimmed == Trim(value)
         IN  IF startsWith(trimmed, Http) \/ startsWith(trimmed, Https)
             THEN trimmed
             ELSE Https \o <<"github.com/">> \o trimmed

buildGithubUrl(value) ==
    IF value = <<>> THEN <<>>
    ELSE LET trimmed == Trim(value)
         IN  IF startsWith(trimmed, Http) \/ startsWith(trimmed, Https)
             THEN trimmed
             ELSE LET handle == IF trimmed # <<>> /\ Head(trimmed) = "@"
                                THEN Tail(trimmed) ELSE trimmed
                  IN  Https \o <<"github.com/">> \o handle

\* contactLine.replace("|GitHub", "| GitHub"): the first occurrence only
normalizeGitHub(contactLine) ==
    LET at == {k \in 1..(Len(contactLine) - 1) :
                  contactLine[k] = "|" /\ contactLine[k + 1] = "GitHub"}
    IN  IF at = {} THEN contactLine
        ELSE LET k == CHOOSE m \in at : \A m2 \in at : m <= m2
             IN  SubSeq(contactLine, 1, k) \o <<" ">>
                     \o SubSeq(contactLine, k + 1, Len(contactLine))

\* map[key] ?? "" after the forEach over the parts: the last part whose
\* label is not empty and gives this key has written the value
contactMap(parts, key) ==
    LET label(k) == Head(Split(parts[k], ":"))
        rest(k) == Tail(Split(parts[k], ":"))
        hits == {k \in 1..Len(parts) :
                    /\ label(k) # <<>>
                    /\ ReplaceSpaceRuns(toLowerCase(label(k)), "_") = key}
    IN  IF hits = {} THEN <<>>
        ELSE LET last == CHOOSE k \in hits : \A k2 \in hits : k >= k2
             IN  Trim(Join(rest(last), ":"))

parseContact(contactLine) ==
    LET normalized == normalizeGitHub(contactLine)
        split == Split(normalized, "|")
        parts == [k \in 1..Len(split) |-> Trim(split[k])]
        linkedInValue == contactMap(parts, <<"linkedin">>)
    IN  [email |-> contactMap(parts, <<"email">>),
         phone |-> contactMap(parts, <<"contact", "_", "number">>),
         linkedIn |-> linkedInValue,
         linkedInUrl |-> buildLinkedInUrl(linkedInValue),
         github |-> buildGithubUrl(contactMap(parts, <<"github">>))]

parseContactCall ==
    /\ fn = "parseContact"
    /\ ~returned
    /\ items' = <<parseContact(lines[1])>>
    /\ pos' = 1
    /\ returned' = TRUE
    /\ UNCHANGED <<fn, lines, currentOrg, currentPeriod, currentRole, bullets,
                   currentContext, currentProject>>
    /\ UNCHANGED vars

NextResume ==
    \/ splitTitlePeriodCall
    \/ parseEducationStep
    \/ parseEducationReturn
    \/ parseExperienceLine
    \/ parseExperienceReturn
    \/ parseProjectsLine
    \/ parseProjectsReturn
    \/ parseSkillsStep
    \/ parseSkillsReturn
    \/ parseContactCall

SpecResume == InitResume /\ [][NextResume]_resumeVars

(***************************************************************************)
(* Vocabulary of the properties.                                           *)
(***************************************************************************)
WhitespaceOnly(s) == \A i \in 1..Len(s) : s[i] = " "

\* t is s without its leading and trailing whitespace.
IsTrimOf(t, s) ==
    \E i \in 0..Len(s) : \E j \in i..Len(s) :
        /\ t = SubSeq(s, i + 1, j)
        /\ \A k \in 1..i : s[k] = " "
        /\ \A k \in (j + 1)..Len(s) : s[k] = " "
        /\ t # <<>> => t[1] # " " /\ t[Len(t)] # " "

IdsOf(h) == {h[i].id : i \in 1..Len(h)}

\* new is old with some of its oldest entries dropped and exactly one entry
\* added at the end, which pairs q with a and is no entry of old.
OneAppended(old, new, q, a) ==
    /\ Len(new) >= 1
    /\ \E k \in 0..Len(old) :
          SubSeq(new, 1, Len(new) - 1) = SubSeq(old, k + 1, Len(old))
    /\ new[Len(new)].question = q
    /\ new[Len(new)].answer = a
    /\ new[Len(new)].id \notin IdsOf(old)

\* The last n entries of h, oldest first.
LastEntries(h, n) ==
    [i \in 1..(IF Len(h) < n THEN Len(h) ELSE n) |->
        h[i + (IF Len(h) < n THEN 0 ELSE Len(h) - n)]]

IsInteraction(e) == DOMAIN e = {"id", "question", "answer", "askedAt"}

\* The stored value is a JSON array of interaction records.
HoldsInteractions(raw) ==
    /\ raw.present
    /\ JSONparse(raw.text).ok
    /\ JSONparse(raw.text).isArray
    /\ \A i \in 1..Len(JSONparse(raw.text).items) :
          IsInteraction(JSONparse(raw.text).items[i])

\* new keeps the entries of old, unaltered and in their order, followed by
\* whatever was added; oldest entries of old are missing only where the
\* length would otherwise exceed the cap.
AppendOnly(old, new) ==
    \E k \in 0..Len(old) :
        /\ Len(new) >= Len(old) - k
        /\ SubSeq(new, 1, Len(old) - k) = SubSeq(old, k + 1, Len(old))
        /\ k > 0 => Len(new) = 15

\* The Copy button is enabled exactly where handleCopyAnswer does something.
CopyButtonAgrees == canCopy <=> ~NothingToCopy(Trim(answer))

\* The gaps of a line: the maximal runs of whitespace that hold two or more
\* characters or a tab, as [from, to] positions.
Gaps(s) ==
    {r \in [from : 1..Len(s), to : 1..Len(s)] :
        /\ r.from <= r.to
        /\ \A k \in r.from..r.to : s[k] \in {" ", Tab, Nbsp}
        /\ r.from = 1 \/ s[r.from - 1] \notin {" ", Tab, Nbsp}
        /\ r.to = Len(s) \/ s[r.to + 1] \notin {" ", Tab, Nbsp}
        /\ r.to > r.from \/ s[r.from] = Tab}

FirstGap(s) == CHOOSE r \in Gaps(s) : \A r2 \in Gaps(s) : r.from <= r2.from

\* s without its leading and trailing whitespace.
Trimmed(s) ==
    LET inner == {k \in 1..Len(s) : s[k] \notin {" ", Tab, Nbsp}}
    IN  IF inner = {} THEN <<>>
        ELSE SubSeq(s, CHOOSE k \in inner : \A k2 \in inner : k <= k2,
                       CHOOSE k \in inner : \A k2 \in inner : k >= k2)

\* s with every non-breaking space turned into a space.
Spaced(s) == [k \in 1..Len(s) |-> IF s[k] = Nbsp THEN " " ELSE s[k]]

\* Kinds of lines of a section: blank; header (a title, a gap, a period);
\* gap-free (a role, a bullet, a context).
IsBlankLine(l) == Trimmed(l) = <<>>

IsHeaderLine(l) == Gaps(Trimmed(l)) # {}

IsGapFreeLine(l) == ~IsBlankLine(l) /\ ~IsHeaderLine(l)

HeaderTitle(l) ==
    Spaced(Trimmed(SubSeq(Trimmed(l), 1, FirstGap(Trimmed(l)).from - 1)))

HeaderPeriod(l) ==
    Spaced(Trimmed(SubSeq(Trimmed(l), FirstGap(Trimmed(l)).to + 1,
                          Len(Trimmed(l)))))

\* The line is text as it is printed: no leading or trailing whitespace, no
\* tab, no non-breaking space.
IsCleanLine(l) == Trimmed(l) = l /\ \A k \in 1..Len(l) : l[k] \notin {Tab, Nbsp}

\* The positions of the header lines of a section, in order.
HeaderPositions(ls) ==
    SelectSeq([k \in 1..Len(ls) |-> k], LAMBDA k : IsHeaderLine(ls[k]))

\* The section is a sequence of blocks: a header line, a role line, then
\* bullet lines.
WellFormedBlocks(ls) ==
    /\ \A k \in 1..Len(ls) : ~IsBlankLine(ls[k])
    /\ Len(ls) > 0 => IsHeaderLine(ls[1])
    /\ \A k \in 1..Len(ls) :
          IsHeaderLine(ls[k]) => (k < Len(ls) /\ IsGapFreeLine(ls[k + 1]))

\* The last line of the block whose header is the j-th header of ls.
BlockEnd(ls, j) ==
    IF j < Len(HeaderPositions(ls)) THEN HeaderPositions(ls)[j + 1] - 1 ELSE Len(ls)

\* The positions from+1..to of ls that hold gap-free lines, in order.
GapFreePositions(ls, from, to) ==
    SelectSeq([k \in 1..Len(ls) |-> k],
              LAMBDA k : k > from /\ k <= to /\ IsGapFreeLine(ls[k]))

\* The header at position k has a role: the first non-blank line after it
\* is a gap-free line.
HasRole(ls, k) ==
    \E r \in (k + 1)..Len(ls) :
        /\ IsGapFreeLine(ls[r])
        /\ \A m \in (k + 1)..(r - 1) : IsBlankLine(ls[m])

\* The positions of the headers that have a role, in order.
HeadersWithRole(ls) ==
    SelectSeq(HeaderPositions(ls), LAMBDA k : HasRole(ls, k))

\* The position of the first colon of the line, 0 if it has none.
FirstColon(l) ==
    IF \E k \in 1..Len(l) : l[k] = ":"
    THEN CHOOSE k \in 1..Len(l) : l[k] = ":" /\ \A m \in 1..(k - 1) : l[m] # ":"
    ELSE 0

\* The labels of a contact line.
EmailLabel == <<"Email">>

PhoneLabel == <<"Contact", " ", "Number">>

LinkedInLabel == <<"LinkedIn">>

GitHubLabel == <<"GitHub">>

ContactLabels == {EmailLabel, PhoneLabel, LinkedInLabel, GitHubLabel}

\* The positions of l where a part begins with the label and a colon: at
\* the start of the line or after a pipe, spaces aside.
LabelStarts(l, label) ==
    {k \in 1..Len(l) :
        /\ k + Len(label) <= Len(l)
        /\ SubSeq(l, k, k + Len(label) - 1) = label
        /\ l[k + Len(label)] = ":"
        /\ LET before == {m \in 1..(k - 1) : l[m] \notin {" ", Tab, Nbsp}}
           IN  \/ before = {}
               \/ l[CHOOSE m \in before : \A m2 \in before : m >= m2] = "|"}

\* The trimmed text between the colon of the label and the next pipe or
\* the end of the line.
FieldValue(l, label) ==
    LET k == CHOOSE k \in LabelStarts(l, label) : TRUE
        from == k + Len(label) + 1
        pipes == {m \in from..Len(l) : l[m] = "|"}
        to == IF pipes = {} THEN Len(l)
              ELSE (CHOOSE m \in pipes : \A m2 \in pipes : m <= m2) - 1
    IN  Trimmed(SubSeq(l, from, to))

\* Each of the four labels begins exactly one part, and its value is not
\* empty.
WellFormedContact(l) ==
    \A label \in ContactLabels :
        /\ Cardinality(LabelStarts(l, label)) = 1
        /\ FieldValue(l, label) # <<>>

\* v begins with http:// or https://
HasScheme(v) ==
    \E scheme \in {<<"http", ":", "//">>, <<"https", ":", "//">>} :
        Len(v) >= 3 /\ SubSeq(v, 1, 3) = scheme

\* An absolute URL: a scheme and something after it.
IsAbsoluteUrl(v) == HasScheme(v) /\ Len(v) > 3

\* A handle as it appears in a profile URL: no scheme, no whitespace, no
\* capital letters.
IsBareHandle(v) ==
    /\ v # <<>>
    /\ ~HasScheme(v)
    /\ \A k \in 1..Len(v) :
          v[k] \notin {" ", Tab, Nbsp, "Email", "Contact", "Number", "LinkedIn",
                       "GitHub", "Jiashu", "Huang"}

\* v without its leading @, if it has one.
WithoutAt(v) == IF v # <<>> /\ v[1] = "@" THEN SubSeq(v, 2, Len(v)) ELSE v

\* The operations a user starts (the completion of an ask included).
UserOps ==
    {"setQuestion", "suggestion", "reuse", "handleAsk", "askSettled", "clear",
     "copy"}

(***************************************************************************)
(* C1: whenever handleAsk runs while the question field is empty or       *)
(* whitespace-only, no request is issued, the answer becomes "Please      *)
(* enter a question first.", and loading, status and history stay as they *)
(* were.                                                                   *)
(***************************************************************************)
C1_EmptyQuestionRejected ==
    [][(op'.name = "handleAsk" /\ WhitespaceOnly(question)) =>
          /\ answer' = <<"Please enter a question first.">>
          /\ requests' = requests
          /\ request' = request
          /\ UNCHANGED <<loading, status, history>>]_vars

C1_Witness ==
    /\ op.name = "handleAsk"
    /\ question = <<" ">>
    /\ answer = <<"Please enter a question first.">>
    /\ status = <<"Copied!">>
    /\ Len(history) > 0
    /\ requests = 1

(***************************************************************************)
(* C2: the in-memory history never holds more than 15 entries, whatever   *)
(* array the storage key held at startup.                                 *)
(***************************************************************************)
C2_HistoryAtMostLimit == Len(history) <= 15

(***************************************************************************)
(* C3: when the history holds 15 entries and an ask completes, the new    *)
(* history is the old entries 2..15 in their order followed by the new    *)
(* entry.                                                                  *)
(***************************************************************************)
C3_OldestEvicted ==
    [][(op'.name = "askSettled" /\ Len(history) = 15) =>
          /\ Len(history') = 15
          /\ \A i \in 1..14 : history'[i] = history[i + 1]
          /\ history'[15].id \notin IdsOf(history)
          /\ history'[15].question = request.question
          /\ history'[15].answer = answer']_vars

C3_Witness ==
    /\ op.name = "askSettled"
    /\ Len(history) = 15
    /\ history[1] = StoredEntry(2)
    /\ history[14] = StoredEntry(15)
    /\ history[15].id > 16

(***************************************************************************)
(* C4: every ask whose backend call completes, in whatever way, ends with *)
(* loading = false and status = ""; loading is never set without a call   *)
(* in flight.                                                              *)
(***************************************************************************)
C4_LoadingCleared ==
    [][/\ op'.name = "askSettled" => (loading' = FALSE /\ status' = <<>>)
       /\ loading' => request'.active]_vars

C4_Witness ==
    /\ op.name = "askSettled"
    /\ op.arg.kind = "badJson"
    /\ ~loading
    /\ status = <<>>
    /\ statusTimers > 0
    /\ Len(history) = 2

(***************************************************************************)
(* C5: when the backend call fails (network error, non-2xx status,        *)
(* unparsable body) the answer is the error message, for a non-2xx status *)
(* the one carrying the body text or "Unknown error", and exactly one     *)
(* entry pairing the trimmed question with that message is appended.      *)
(***************************************************************************)
C5_FailureRecorded ==
    [][(op'.name = "askSettled" /\ op'.arg.kind \in {"network", "http", "badJson"}) =>
          /\ answer' # <<>>
          /\ answer' # DEFAULT_ANSWER
          /\ op'.arg.kind = "http" =>
                answer' = <<"Request failed (500):", " ">>
                          \o (IF op'.arg.body = <<>> THEN <<"Unknown error">>
                                                     ELSE op'.arg.body)
          /\ IsTrimOf(request.question, request.typed)
          /\ OneAppended(history, history', request.question, answer')]_vars

C5_Witness ==
    /\ op.name = "askSettled"
    /\ op.arg = [kind |-> "http", body |-> <<>>]
    /\ answer = <<"Request failed (500):", " ", "Unknown error">>
    /\ Len(history) = 15
    /\ history[15].answer = answer
    /\ history[15].question = <<"List the most recent work achievements.">>

(***************************************************************************)
(* C6: when the backend call succeeds the answer is the returned answer;  *)
(* every completed ask appends exactly one entry, which pairs the trimmed *)
(* question with the answer shown.                                        *)
(***************************************************************************)
C6_OneEntryPerAsk ==
    [][op'.name = "askSettled" =>
          /\ op'.arg.kind = "answer" => answer' = op'.arg.body
          /\ request.question # <<>>
          /\ IsTrimOf(request.question, request.typed)
          /\ OneAppended(history, history', request.question, answer')]_vars

C6_Witness ==
    /\ op.name = "askSettled"
    /\ op.arg.kind = "answer"
    /\ answer = op.arg.body
    /\ Len(history) = 2
    /\ history[2].answer = answer
    /\ history[1].id < history[2].id

C9_MalformedFallsBackToEmpty ==
    [][(op'.name = "startup" /\ op'.arg.kind = "none"
            /\ ~HoldsInteractions(storage)) =>
          /\ history' = <<>>
          /\ uncaught' = "none"]_vars

(***************************************************************************)
(* C10: a failure of the storage, on read or on write, is caught: it      *)
(* never propagates out of the load or the persist step.                  *)
(***************************************************************************)
C10_StorageFailureCaught == uncaught \notin {"getItem", "setItem"}

(***************************************************************************)
(* C11: while a request is in flight (loading = true) the status is       *)
(* "Thinking..." and stays so until the request completes; nothing but    *)
(* the completion of the backend call resets loading.                     *)
(***************************************************************************)
C11_ThinkingWhileLoading ==
    [][/\ loading' => status' = <<"Thinking...">>
       /\ (loading /\ op'.name # "askSettled") =>
              (loading' /\ status' = <<"Thinking...">>)]_vars

(***************************************************************************)
(* C12: after a copy attempt on a non-empty, non-placeholder answer,      *)
(* whether the clipboard write succeeds, fails, or the clipboard is       *)
(* unavailable, a status message is shown and is eventually cleared back  *)
(* to "" with no further user action.                                     *)
(***************************************************************************)
C12_CopyStatusCleared ==
    /\ [][(op'.name = "copySettled"
             \/ (op'.name = "copy" /\ ~NothingToCopy(Trim(answer)) /\ ~clipboard'))
            => status' \in {<<"Copied!">>, <<"Clipboard unavailable">>}]_vars
    /\ (status \in {<<"Copied!">>, <<"Clipboard unavailable">>})
          ~> (status = <<>> \/ op.name \in UserOps)

(***************************************************************************)
(* C13: handleCopyAnswer is a no-op when the trimmed answer is empty or   *)
(* is the placeholder text: no clipboard write starts and status, copied, *)
(* answer, history and loading are unchanged.                             *)
(***************************************************************************)
C13_NothingToCopyIsNoOp ==
    [][(op'.name = "copy"
            /\ (Trim(answer) = <<>> \/ Trim(answer) = DEFAULT_ANSWER)) =>
          /\ UNCHANGED <<status, copied, answer, history, loading>>
          /\ UNCHANGED <<clipboard, copies, statusTimers>>]_vars

C13_Witness ==
    /\ op.name = "copy"
    /\ answer = DEFAULT_ANSWER
    /\ status = <<>>
    /\ ~clipboard
    /\ copies = 0

(***************************************************************************)
(* C14: the history is append-only apart from cap eviction: no operation  *)
(* of a session removes or alters an existing entry, except that the      *)
(* oldest entries are dropped when the length would exceed the cap.       *)
(***************************************************************************)
C14_AppendOnly ==
    [][op'.name # "mount" => AppendOnly(history, history')]_vars

\* C14 as amended: the same, for every operation but "Clear history",
\* which empties the history.
C14_AppendOnlyUnlessCleared ==
    [][/\ op'.name \notin {"mount", "clear"} => AppendOnly(history, history')
       /\ op'.name = "clear" => history' = <<>>]_vars

C14_Witness ==
    /\ op.name = "askSettled"
    /\ Len(history) = 15
    /\ history[1] = StoredEntry(3)
    /\ history[14] = StoredEntry(16)
    /\ history[15].id > 16

(***************************************************************************)
(* C15: reusing a past history entry sets the question field to that      *)
(* entry's question and leaves answer, status, loading and history        *)
(* unchanged; it issues no backend request.                               *)
(***************************************************************************)
C15_ReuseOnlySetsQuestion ==
    [][op'.name = "reuse" =>
          /\ question' = op'.arg.body
          /\ \E i \in 1..Len(history) : history[i].question = question'
          /\ UNCHANGED <<answer, status, loading, history>>
          /\ UNCHANGED <<request, requests>>]_vars

C15_Witness ==
    /\ op.name = "reuse"
    /\ question = history[1].question
    /\ Len(history) = 2
    /\ answer = <<"Failed to fetch">>
    /\ status = <<"Clipboard unavailable">>
    /\ requests = 2

(***************************************************************************)
(* C19: splitTitlePeriod.  If the line has a gap (two or more whitespace  *)
(* characters, or a tab) the title is the trimmed text before the first   *)
(* gap and the period the trimmed text after it; otherwise the title is   *)
(* the whole trimmed line and the period is empty.                        *)
(***************************************************************************)
C19_SplitAtFirstGap ==
    (fn = "splitTitlePeriod" /\ returned) =>
        LET line == lines[1]
        IN  IF Gaps(line) # {}
            THEN /\ items[1].title = Trimmed(SubSeq(line, 1, FirstGap(line).from - 1))
                 /\ items[1].period =
                        Trimmed(SubSeq(line, FirstGap(line).to + 1, Len(line)))
            ELSE /\ items[1].title = Trimmed(line)
                 /\ items[1].period = <<>>

\* C19 as amended: the same, up to non-breaking spaces of the title and of
\* the period having been replaced by spaces.
C19_SplitAtFirstGapSpaced ==
    (fn = "splitTitlePeriod" /\ returned) =>
        LET line == lines[1]
        IN  IF Gaps(line) # {}
            THEN /\ Spaced(items[1].title) =
                        Spaced(Trimmed(SubSeq(line, 1, FirstGap(line).from - 1)))
                 /\ Spaced(items[1].period) =
                        Spaced(Trimmed(SubSeq(line, FirstGap(line).to + 1, Len(line))))
            ELSE /\ items[1].title = Trimmed(line)
                 /\ items[1].period = <<>>

C19_Witness ==
    /\ fn = "splitTitlePeriod"
    /\ returned
    /\ lines = << <<"a", Nbsp, "b", Tab, "a">> >>
    /\ items = << [title |-> <<"a", " ", "b">>, period |-> <<"a">>] >>

(***************************************************************************)
(* C20: parseEducation consumes its lines in (header, detail) pairs: for  *)
(* n lines it returns ceil(n/2) entries; entry k has its school and       *)
(* period split from the k-th header line and its detail is the trimmed   *)
(* line after it, empty when there is none.  No line is skipped or used   *)
(* twice.                                                                  *)
(***************************************************************************)
C20_EducationPairs ==
    (fn = "parseEducation" /\ returned) =>
        /\ Len(items) = (Len(lines) + 1) \div 2
        /\ \A k \in 1..Len(items) :
              /\ items[k].school = splitTitlePeriod(lines[2 * k - 1]).title
              /\ items[k].period = splitTitlePeriod(lines[2 * k - 1]).period
              /\ items[k].detail =
                    (IF 2 * k <= Len(lines) THEN Trimmed(lines[2 * k]) ELSE <<>>)

C20_Witness ==
    /\ fn = "parseEducation"
    /\ returned
    /\ lines = << <<"a", " ", " ", "b">>, <<" ", "a", Nbsp, "b">>,
                  <<"b", Tab, "a">> >>
    /\ items = << [school |-> <<"a">>, period |-> <<"b">>,
                   detail |-> <<"a", Nbsp, "b">>],
                  [school |-> <<"b">>, period |-> <<"a">>, detail |-> <<>>] >>

(***************************************************************************)
(* C16: for a section made of well-formed blocks (a header line: title,   *)
(* gap, period; a role line; zero or more bullet lines) parseExperience   *)
(* returns exactly one entry per block, in input order, with org the      *)
(* header's title, period the header's period, role the role line and     *)
(* bullets the block's bullet lines in order.  A line printed clean comes *)
(* back as it is; otherwise the role is the trimmed line and a bullet is  *)
(* the trimmed line with its non-breaking spaces turned into spaces.      *)
(***************************************************************************)
C16_OneEntryPerBlock ==
    (fn = "parseExperience" /\ returned /\ WellFormedBlocks(lines)) =>
        LET H == HeaderPositions(lines)
        IN  /\ Len(items) = Len(H)
            /\ \A j \in 1..Len(H) :
                  /\ items[j].org = HeaderTitle(lines[H[j]])
                  /\ items[j].period = HeaderPeriod(lines[H[j]])
                  /\ items[j].role = Trimmed(lines[H[j] + 1])
                  /\ IsCleanLine(lines[H[j] + 1]) => items[j].role = lines[H[j] + 1]
                  /\ Len(items[j].bullets) = BlockEnd(lines, j) - (H[j] + 1)
                  /\ \A b \in 1..Len(items[j].bullets) :
                        /\ items[j].bullets[b] = Spaced(Trimmed(lines[H[j] + 1 + b]))
                        /\ IsCleanLine(lines[H[j] + 1 + b]) =>
                              items[j].bullets[b] = lines[H[j] + 1 + b]

C16_Witness ==
    /\ fn = "parseExperience"
    /\ returned
    /\ lines = << <<"a", " ", " ", "b">>, <<"b", " ", "a">>,
                  <<"b", Tab, "a">>, <<"a">> >>
    /\ items = << [role |-> <<"b", " ", "a">>, org |-> <<"a">>, period |-> <<"b">>,
                   bullets |-> <<>>],
                  [role |-> <<"a">>, org |-> <<"b">>, period |-> <<"a">>,
                   bullets |-> <<>>] >>

(***************************************************************************)
(* C17: in parseExperience an entry is pushed only when a new title /     *)
(* period line or the end of the input is reached, and a pending entry    *)
(* that lacks both a role and an org is dropped there without an error.   *)
(***************************************************************************)
C17_PushedAtHeaderOrEnd ==
    [][fn = "parseExperience" =>
          /\ items' # items =>
                \/ pos' = pos + 1 /\ IsHeaderLine(lines[pos + 1])
                \/ returned' /\ pos = Len(lines)
          /\ (currentRole = <<>> /\ currentOrg = <<>>) => items' = items]_resumeVars

C17_Witness ==
    /\ fn = "parseExperience"
    /\ ~returned
    /\ pos = 3
    /\ SubSeq(lines, 1, 3) = << <<"a", " ", " ", "b">>, <<" ", "a", Nbsp, "b">>,
                                <<"b", Tab, "a">> >>
    /\ items = << [role |-> <<"a", Nbsp, "b">>, org |-> <<"a">>, period |-> <<"b">>,
                   bullets |-> <<>>] >>
    /\ currentOrg = <<"b">>
    /\ currentRole = <<>>

(***************************************************************************)
(* C18: in parseProjects the first line without a period that follows a   *)
(* project header line is a context line, kept for a later titled entry:  *)
(* it is not a bullet of the entry just opened; only the lines after it   *)
(* are bullets.                                                            *)
(***************************************************************************)
C18_LineAfterHeaderIsContext ==
    [][(/\ fn = "parseProjects"
        /\ pos' = pos + 1
        /\ IsGapFreeLine(lines[pos + 1])
        /\ currentProject.open
        /\ currentProject.bullets = <<>>) =>
          /\ currentProject'.bullets = <<>>
          /\ currentContext' = Trimmed(lines[pos + 1])]_resumeVars

(***************************************************************************)
(* C23: at most one backend request is in flight at any time: a non-empty *)
(* ask cannot begin between the start of a request and its completion,    *)
(* and loading is true exactly while a request is in flight.              *)
(***************************************************************************)
C23_OneRequestInFlight ==
    /\ [](loading <=> request.active)
    /\ [][requests' > requests =>
             /\ ~request.active
             /\ ~loading
             /\ requests' = requests + 1
             /\ request'.active]_vars

C23_Witness ==
    /\ op.name = "askSettled"
    /\ requests = 2
    /\ ~loading
    /\ ~request.active
    /\ Len(history) = 2

(***************************************************************************)
(* C24: the question recorded with an ask is the trimmed text of the      *)
(* question field at the moment the ask started: editing the field while  *)
(* the request is in flight changes neither the request nor the question  *)
(* stored with the answer, and a completed ask never modifies the field.  *)
(***************************************************************************)
C24_QuestionCapturedAtStart ==
    [][/\ requests' > requests =>
             /\ request'.typed = question
             /\ IsTrimOf(request'.question, question)
       /\ (request.active /\ op'.name \in {"setQuestion", "suggestion", "reuse"}) =>
             request' = request
       /\ op'.name = "askSettled" =>
             /\ history'[Len(history')].question = request.question
             /\ IsTrimOf(request.question, request.typed)
             /\ question' = question]_vars

C24_Witness ==
    /\ op.name = "askSettled"
    /\ question = <<" ">>
    /\ Len(history) = 1
    /\ history[1].question = <<"List the most recent work achievements.">>
    /\ history[1].answer = answer

C26_EntriesAreComplete ==
    fn = "parseExperience" =>
        /\ \A j \in 1..Len(items) :
              /\ items[j].org # <<>>
              /\ items[j].period # <<>>
              /\ items[j].role # <<>>
        /\ Len(items) <= Len(HeaderPositions(SubSeq(lines, 1, pos)))
        /\ returned =>
              /\ Len(items) = Len(HeadersWithRole(lines))
              /\ \A j \in 1..Len(items) :
                    /\ items[j].org = HeaderTitle(lines[HeadersWithRole(lines)[j]])
                    /\ items[j].period = HeaderPeriod(lines[HeadersWithRole(lines)[j]])

C26_Witness ==
    /\ fn = "parseExperience"
    /\ returned
    /\ lines = << <<"a">>, <<"a", " ", " ", "b">>, <<"b", Tab, "a">>,
                  <<"b", " ", "a">> >>
    /\ items = << [role |-> <<"b", " ", "a">>, org |-> <<"b">>, period |-> <<"a">>,
                   bullets |-> <<>>] >>

(***************************************************************************)
(* C27: parseProjects returns exactly one entry per header line, in input *)
(* order, never dropping one; every non-blank line without a period after *)
(* the first header is a bullet of the most recent header's entry; every  *)
(* entry carries the same context: the last non-blank line without a      *)
(* period before the first header, or none.                                *)
(***************************************************************************)
C27_OneProjectPerHeader ==
    (fn = "parseProjects" /\ returned) =>
        LET H == HeaderPositions(lines)
            before == GapFreePositions(lines, 0, IF H = <<>> THEN 0 ELSE H[1])
        IN  /\ Len(items) = Len(H)
            /\ \A j \in 1..Len(H) :
                  LET own == GapFreePositions(lines, H[j], BlockEnd(lines, j))
                  IN  /\ items[j].title = HeaderTitle(lines[H[j]])
                      /\ items[j].period = HeaderPeriod(lines[H[j]])
                      /\ Len(items[j].bullets) = Len(own)
                      /\ \A b \in 1..Len(own) :
                            items[j].bullets[b] = Spaced(Trimmed(lines[own[b]]))
                      /\ items[j].context.defined = (before # <<>>)
                      /\ before # <<>> =>
                            items[j].context.text = Trimmed(lines[before[Len(before)]])

C27_Witness ==
    /\ fn = "parseProjects"
    /\ returned
    /\ lines = << <<" ", "a", Nbsp, "b">>, <<"a", " ", " ", "b">>,
                  <<"b", " ", "a">>, <<"b", Tab, "a">> >>
    /\ items = << [title |-> <<"a">>, period |-> <<"b">>,
                   context |-> [defined |-> TRUE, text |-> <<"a", Nbsp, "b">>],
                   bullets |-> << <<"b", " ", "a">> >>],
                  [title |-> <<"b">>, period |-> <<"a">>,
                   context |-> [defined |-> TRUE, text |-> <<"a", Nbsp, "b">>],
                   bullets |-> <<>>] >>

(***************************************************************************)
(* C21: parseSkills returns one label/value pair per line, in input       *)
(* order: the label is the trimmed text before the first colon, the value *)
(* the trimmed text after the first colon, later colons kept; a line      *)
(* without a colon gives the whole trimmed line as label and an empty     *)
(* value.                                                                  *)
(***************************************************************************)
C21_SkillsSplitAtFirstColon ==
    (fn = "parseSkills" /\ returned) =>
        /\ Len(items) = Len(lines)
        /\ \A k \in 1..Len(lines) :
              LET l == lines[k]
                  c == FirstColon(l)
              IN  IF c > 0
                  THEN /\ items[k].label = Trimmed(SubSeq(l, 1, c - 1))
                       /\ items[k].value = Trimmed(SubSeq(l, c + 1, Len(l)))
                  ELSE /\ items[k].label = Trimmed(l)
                       /\ items[k].value = <<>>

C21_Witness ==
    /\ fn = "parseSkills"
    /\ returned
    /\ lines = << <<" ", "b", " ", ":", "a", ":", "b", " ">>, <<"a", " ", "b">> >>
    /\ items = << [label |-> <<"b">>, value |-> <<"a", ":", "b">>],
                  [label |-> <<"a", " ", "b">>, value |-> <<>>] >>

(***************************************************************************)
(* C22: for a well-formed pipe-delimited contact line with the labels     *)
(* Email, Contact Number, LinkedIn and GitHub, parseContact returns the   *)
(* four values; linkedInUrl and github are absolute URLs: a bare handle   *)
(* becomes the canonical profile URL (a leading @ stripped for GitHub), a *)
(* value that starts with http:// or https:// is returned unchanged, and  *)
(* the builder applied to its own output changes nothing.                 *)
(***************************************************************************)
C22_ContactRecovered ==
    (fn = "parseContact" /\ returned /\ WellFormedContact(lines[1])) =>
        LET l == lines[1]
            basics == items[1]
            linkedIn == FieldValue(l, LinkedInLabel)
            github == FieldValue(l, GitHubLabel)
        IN  /\ basics.email = FieldValue(l, EmailLabel)
            /\ basics.phone = FieldValue(l, PhoneLabel)
            /\ basics.linkedIn = linkedIn
            /\ IsAbsoluteUrl(basics.linkedInUrl)
            /\ IsAbsoluteUrl(basics.github)
            /\ HasScheme(linkedIn) => basics.linkedInUrl = linkedIn
            /\ IsBareHandle(linkedIn) =>
                  basics.linkedInUrl =
                      <<"https", ":", "//", "www.linkedin.com/in/">> \o linkedIn
            /\ HasScheme(github) => basics.github = github
            /\ IsBareHandle(WithoutAt(github)) =>
                  basics.github =
                      <<"https", ":", "//", "github.com/">> \o WithoutAt(github)
            /\ buildLinkedInUrl(basics.linkedInUrl) = basics.linkedInUrl
            /\ buildGithubUrl(basics.github) = basics.github

C22_Witness ==
    /\ fn = "parseContact"
    /\ returned
    /\ lines = <<GlitchLine>>
    /\ WellFormedContact(lines[1])
    /\ items[1].email = <<"a", "@", "b.com">>
    /\ items[1].phone = <<"123">>
    /\ items[1].linkedInUrl = <<"https", ":", "//", "www.linkedin.com/in/", "jiashu-huang">>
    /\ items[1].github = <<"https", ":", "//", "github.com/", "joshh">>

====
